---------------------------- MODULE Spec2Model ----------------------------
(***************************************************************************)
(* Model of the NF-e extraction and aggregation pipeline:                  *)
(*   src/nfe_parser.py  NFEParser.parse_xml_file, _get_text, process_folder *)
(*   src/app.py         the "Processar XMLs" button handler                 *)
(*                                                                         *)
(* Text that the code inspects character by character (file names, the Id  *)
(* attribute, element text) is a sequence of one-character strings.  Text  *)
(* that the code only passes around (dictionary keys, exception class      *)
(* names, fixed messages) is a TLA+ string.                                *)
(***************************************************************************)
EXTENDS Integers, Sequences, FiniteSets, TLC

VARIABLES
    fs,          \* the file system: directories (listings) and files (contents)
    data,        \* NFEParser.data of the long-lived parser instance
    arg,         \* folder_path of the latest process_folder call on it
    result,      \* what that call returned or raised
    prevArg,     \* folder_path of the call before it
    prevResult,  \* and its outcome
    ui,          \* the message the button handler rendered last
    df_nfe,      \* st.session_state.df_nfe
    handed,      \* the files that call handed to parse_xml_file
    file,        \* file_path handed to parse_xml_file (extractor runs)
    rec          \* what parse_xml_file returned for it

vars == <<fs, data, arg, result, handed, prevArg, prevResult, ui, df_nfe, file, rec>>

(***************************************************************************)
(* Bounds of the model.                                                    *)
(***************************************************************************)
\* most entries a listed directory holds
MaxFiles == 2
\* most <det> line items an invoice document holds
MaxDet == 2

\* Python's None as a returned value, and "no call made yet"
None == [none |-> TRUE]
Pending == [pending |-> TRUE]

\* None where the code holds an element: nodes are numbered from 1
NoNode == 0

\* no path handed over yet
NoPath == <<>>

(***************************************************************************)
(* Values held in dictionaries and table cells.                            *)
(***************************************************************************)
Str(s) == [str |-> s]
IntVal(n) == [int |-> n]
\* a float: mant * 10^(-exp), without trailing zeros in the fraction
Num(m, e) == [mant |-> m, exp |-> e]
\* a timestamp
Timestamp(y, m, d) == [year |-> y, month |-> m, day |-> d]
\* pandas' NaN / NaT: a missing or uncoercible cell
NaN == [nan |-> TRUE]

(***************************************************************************)
(* Python str operations, on sequences of characters.                      *)
(***************************************************************************)
Whitespace == {" ", "\t", "\n"}

UpperToLower ==
    [c \in {"X", "M", "L", "B", "N", "F", "T"} |->
        CASE c = "X" -> "x" [] c = "M" -> "m" [] c = "L" -> "l" [] c = "B" -> "b"
          [] c = "N" -> "n" [] c = "F" -> "f" [] c = "T" -> "t"]

\* str.lower()
lower(s) == [i \in 1..Len(s) |-> IF s[i] \in DOMAIN UpperToLower THEN UpperToLower[s[i]] ELSE s[i]]

\* str.startswith(p)
startswith(s, p) == Len(s) >= Len(p) /\ SubSeq(s, 1, Len(p)) = p

\* str.endswith(p)
endswith(s, p) == Len(s) >= Len(p) /\ SubSeq(s, Len(s) - Len(p) + 1, Len(s)) = p

RECURSIVE lstrip(_)
lstrip(s) == IF s # <<>> /\ Head(s) \in Whitespace THEN lstrip(Tail(s)) ELSE s

RECURSIVE rstrip(_)
rstrip(s) == IF s # <<>> /\ s[Len(s)] \in Whitespace THEN rstrip(SubSeq(s, 1, Len(s) - 1)) ELSE s

\* str.strip()
strip(s) == rstrip(lstrip(s))

\* str.replace(old, ''): every non-overlapping occurrence, left to right
RECURSIVE replace(_, _)
replace(s, old) ==
    IF Len(s) < Len(old) \/ old = <<>> THEN s
    ELSE IF startswith(s, old) THEN replace(SubSeq(s, Len(old) + 1, Len(s)), old)
    ELSE <<Head(s)>> \o replace(Tail(s), old)

\* os.path.join(folder_path, f)
join(folder, f) == IF endswith(folder, <<"/">>) THEN folder \o f ELSE folder \o <<"/">> \o f

\* os.path.basename(file_path): what follows the last "/"
RECURSIVE basename(_)
basename(p) ==
    IF \E i \in 1..Len(p) : p[i] = "/"
    THEN basename(SubSeq(p, (CHOOSE i \in 1..Len(p) : p[i] = "/") + 1, Len(p)))
    ELSE p

(***************************************************************************)
(* Parsed documents (lxml trees).  A tree is the sequence of its nodes in  *)
(* document order; parent = 0 marks the root.  An element's tag           *)
(* "{uri}local" is held as ns and tag; a comment's tag is no string.       *)
(* text <<>> stands for both None and '' (the code tests only truthiness). *)
(***************************************************************************)
NfeNs == "http://www.portalfiscal.inf.br/nfe"

\* NFEParser.NAMESPACES
NAMESPACES == [nfe |-> NfeNs]

NoAttrib == [hasId |-> FALSE, Id |-> <<>>]

Elem(ns, tag, parent, text) ==
    [kind |-> "element", ns |-> ns, tag |-> tag, parent |-> parent, text |-> text,
     attrib |-> NoAttrib]

ElemId(ns, tag, parent, id) ==
    [kind |-> "element", ns |-> ns, tag |-> tag, parent |-> parent, text |-> <<>>,
     attrib |-> [hasId |-> TRUE, Id |-> id]]

Comment(parent) ==
    [kind |-> "comment", ns |-> "", tag |-> "", parent |-> parent, text |-> <<>>,
     attrib |-> NoAttrib]

\* i is a proper descendant of ctx
RECURSIVE IsDescendant(_, _, _)
IsDescendant(nodes, i, ctx) ==
    /\ nodes[i].parent # 0
    /\ \/ nodes[i].parent = ctx
       \/ IsDescendant(nodes, nodes[i].parent, ctx)

\* elem.iterdescendants(tag): the elements below ctx with that qualified
\* tag, in document order ("*" matches every element, never a comment)
iterdescendants(nodes, ctx, ns, tag) ==
    LET Match(i) == /\ IsDescendant(nodes, i, ctx)
                    /\ nodes[i].kind = "element"
                    /\ tag = "*" \/ (nodes[i].ns = ns /\ nodes[i].tag = tag)
        F[i \in 0..Len(nodes)] ==
            IF i = 0 THEN <<>> ELSE IF Match(i) THEN Append(F[i - 1], i) ELSE F[i - 1]
    IN F[Len(nodes)]

(***************************************************************************)
(* ElementPath.  A path is the token sequence of lxml's xpath_tokenizer:   *)
(* each token is (op, tag), an operator or a (namespace-resolved) name.    *)
(***************************************************************************)
Op(o) == [op |-> o, ns |-> "", tag |-> ""]
Name(ns, tag) == [op |-> "", ns |-> ns, tag |-> tag]

\* the tokens of './/' in front of the tokens of `tag`
DescendantOf(tagTokens) == <<Op("."), Op("//")>> \o tagTokens

Return(v) == [raised |-> FALSE, value |-> v]
\* an exception of class exc; str(e) is msg followed by the path it names
RaiseAt(exc, msg, path) == [raised |-> TRUE, exc |-> exc, msg |-> [text |-> msg, path |-> path]]
Raise(exc, msg) == RaiseAt(exc, msg, <<>>)

\* _build_path_iterator and its selectors, applied to the context elements
\* `ctxs`: '.' keeps them, '//' must be followed by a name (or '*') and
\* selects descendants, a '/' after a step is skipped, a bare name selects
\* children.  A '//' followed by an operator is SyntaxError.
RECURSIVE Select(_, _, _)
Select(nodes, ctxs, tokens) ==
    IF tokens = <<>> THEN Return(ctxs)
    ELSE LET t == Head(tokens) IN
         IF t.op = "." THEN Select(nodes, ctxs, Tail(tokens))
         ELSE IF t.op = "//" THEN
              IF Len(tokens) < 2 THEN Raise("SyntaxError", "invalid path")
              ELSE LET n == tokens[2]
                       Step[k \in 0..Len(ctxs)] ==
                           IF k = 0 THEN <<>>
                           ELSE Step[k - 1] \o
                                iterdescendants(nodes, ctxs[k], n.ns,
                                                IF n.op = "*" THEN "*" ELSE n.tag)
                   IN IF n.op # "" /\ n.op # "*"
                      THEN Raise("SyntaxError", "invalid descendant")
                      ELSE Select(nodes, Step[Len(ctxs)], SubSeq(tokens, 3, Len(tokens)))
         ELSE IF t.op = "/" THEN Select(nodes, ctxs, Tail(tokens))
         ELSE LET Kids[k \in 0..Len(ctxs)] ==
                      IF k = 0 THEN <<>>
                      ELSE Kids[k - 1] \o
                           SelectSeq(iterdescendants(nodes, ctxs[k], t.ns,
                                                     IF t.op = "*" THEN "*" ELSE t.tag),
                                     LAMBDA i : nodes[i].parent = ctxs[k])
              IN Select(nodes, Kids[Len(ctxs)], Tail(tokens))

\* next(iter(selected), None)
First(selected) ==
    IF selected.raised THEN selected
    ELSE IF selected.value = <<>> THEN Return(NoNode) ELSE Return(Head(selected.value))

\* elem.find(path): the first selected element, or None
find(nodes, ctx, path) == First(Select(nodes, <<ctx>>, path))

\* elem.findall(path)
findall(nodes, ctx, path) == Select(nodes, <<ctx>>, path)

\* NFEParser._get_text(parent, tag), default ''
\* if elem is not None and elem.text: return elem.text.strip(); return default
TextOrDefault(nodes, elem) ==
    IF elem.raised THEN elem
    ELSE IF elem.value # NoNode /\ nodes[elem.value].text # <<>>
    THEN Return(strip(nodes[elem.value].text))
    ELSE Return(<<>>)

_get_text(nodes, parent, tagTokens) ==
    IF parent = NoNode THEN Return(<<>>)
    ELSE TextOrDefault(nodes, find(nodes, parent, DescendantOf(tagTokens)))

(***************************************************************************)
(* NFEParser.parse_xml_file.                                               *)
(***************************************************************************)
\* etree.parse(file_path): the tree, or the error of an unreadable or
\* malformed file
etree_parse(fsys, file_path) ==
    IF file_path \notin DOMAIN fsys.files
    THEN Raise("OSError", "Error reading file")
    ELSE LET c == fsys.files[file_path] IN
         IF c.kind = "unreadable" THEN Raise("OSError", "Error reading file")
         ELSE IF c.kind = "malformed" THEN Raise("XMLSyntaxError", "Premature end of data")
         ELSE Return(c.nodes)

\* root.iter(): the root and everything below it, comments included
iter(nodes) == [i \in 1..Len(nodes) |-> i]

\* for elem in root.iter(): if elem.tag.startswith('{'): elem.tag =
\* elem.tag.split('}')[1].  The tag of a comment is a function, not a str.
StripNamespaces(nodes) ==
    IF \E k \in 1..Len(iter(nodes)) : nodes[iter(nodes)[k]].kind # "element"
    THEN Raise("AttributeError", "object has no attribute 'startswith'")
    ELSE Return([i \in 1..Len(nodes) |->
                    IF nodes[i].ns # "" THEN [nodes[i] EXCEPT !.ns = ""] ELSE nodes[i]])

\* The keys filled by _get_text, in the order the dict display evaluates
\* them: the block searched and the tags tried ('a or b': b only when a
\* came back empty).
TextFields ==
    << [key |-> "numero_nf",      block |-> "ide",   tags |-> << <<Name("", "nNF")>> >>],
       [key |-> "serie",          block |-> "ide",   tags |-> << <<Name("", "serie")>> >>],
       [key |-> "data_emissao",   block |-> "ide",
        tags |-> << <<Name("", "dhEmi")>>, <<Name("", "dEmi")>> >>],
       [key |-> "emit_cnpj",      block |-> "emit",  tags |-> << <<Name("", "CNPJ")>> >>],
       [key |-> "emit_nome",      block |-> "emit",  tags |-> << <<Name("", "xNome")>> >>],
       [key |-> "emit_fantasia",  block |-> "emit",  tags |-> << <<Name("", "xFant")>> >>],
       [key |-> "dest_cnpj",      block |-> "dest",
        tags |-> << <<Name("", "CNPJ")>>, <<Name("", "CPF")>> >>],
       [key |-> "dest_nome",      block |-> "dest",  tags |-> << <<Name("", "xNome")>> >>],
       [key |-> "valor_produtos", block |-> "total",
        tags |-> << DescendantOf(<<Name("", "vProd")>>) >>],
       [key |-> "valor_desconto", block |-> "total",
        tags |-> << DescendantOf(<<Name("", "vDesc")>>) >>],
       [key |-> "valor_frete",    block |-> "total",
        tags |-> << DescendantOf(<<Name("", "vFrete")>>) >>],
       [key |-> "valor_total",    block |-> "total",
        tags |-> << DescendantOf(<<Name("", "vNF")>>) >>],
       [key |-> "valor_icms",     block |-> "total",
        tags |-> << DescendantOf(<<Name("", "vICMS")>>) >>],
       [key |-> "valor_ipi",      block |-> "total",
        tags |-> << DescendantOf(<<Name("", "vIPI")>>) >>],
       [key |-> "natureza_operacao", block |-> "ide", tags |-> << <<Name("", "natOp")>> >>],
       [key |-> "tpNF",           block |-> "ide",   tags |-> << <<Name("", "tpNF")>> >>] >>

\* self._get_text(parent, a) or self._get_text(parent, b) or ...
RECURSIVE GetTextOr(_, _, _)
OrNext(nodes, parent, tags, first) ==
    IF first.raised \/ first.value # <<>> \/ Len(tags) = 1 THEN first
    ELSE GetTextOr(nodes, parent, Tail(tags))

GetTextOr(nodes, parent, tags) ==
    OrNext(nodes, parent, tags, _get_text(nodes, parent, Head(tags)))

\* nfe_info.get('Id', '').replace('NFe', '')
chave_acesso(node) ==
    replace(IF node.attrib.hasId THEN node.attrib.Id ELSE <<>>, <<"N", "F", "e">>)

\* 'Entrada' if self._get_text(ide, 'tpNF') == '0' else 'Saída'
tipo_operacao(tpNF) == IF tpNF = <<"0">> THEN "Entrada" ELSE "Saida"

\* ide = nfe_info.find('.//ide'), emit, dest, total
Blocks(nodes, nfe_info) ==
    [b \in {"ide", "emit", "dest", "total"} |->
        find(nodes, nfe_info, DescendantOf(<<Name("", b)>>)).value]

\* the _get_text results of the dict display, in order
FieldTexts(nodes, blocks) ==
    [k \in 1..Len(TextFields) |->
        GetTextOr(nodes, blocks[TextFields[k].block], TextFields[k].tags)]

\* The dict display and data['qtd_itens'] = len(items): the first _get_text
\* that raises ends the evaluation.
BuildRecord(file_path, node, texts, items) ==
    IF \E k \in 1..Len(TextFields) : texts[k].raised
    THEN texts[CHOOSE k \in 1..Len(TextFields) :
                   /\ texts[k].raised
                   /\ \A j \in 1..(k - 1) : ~texts[j].raised]
    ELSE Return([key \in ({TextFields[k].key : k \in 1..Len(TextFields)} \ {"tpNF"})
                         \cup {"arquivo", "chave_acesso", "tipo_operacao", "qtd_itens"} |->
             CASE key = "arquivo" -> Str(basename(file_path))
               [] key = "chave_acesso" -> Str(chave_acesso(node))
               [] key = "tipo_operacao" ->
                      [label |-> tipo_operacao(texts[CHOOSE k \in 1..Len(TextFields) :
                                                         TextFields[k].key = "tpNF"].value)]
               [] key = "qtd_itens" -> IntVal(Len(items))
               [] OTHER -> Str(texts[CHOOSE k \in 1..Len(TextFields) :
                                         TextFields[k].key = key].value)])

\* What follows `if nfe_info is None: return None`.
ExtractFields(file_path, nodes, nfe_info) ==
    IF nfe_info = NoNode THEN Return(None)
    ELSE BuildRecord(file_path, nodes[nfe_info],
                     FieldTexts(nodes, Blocks(nodes, nfe_info)),
                     findall(nodes, nfe_info, DescendantOf(<<Name("", "det")>>)).value)

\* nfe_info = root.find('.//infNFe') on the tree without namespaces
AfterStrip(file_path, stripped) ==
    IF stripped.raised THEN stripped
    ELSE ExtractFields(file_path, stripped.value,
                       find(stripped.value, 1, DescendantOf(<<Name("", "infNFe")>>)).value)

\* if nfe_info is None: strip the namespaces and look again
Located(file_path, nodes, nfe_info) ==
    IF nfe_info # NoNode THEN ExtractFields(file_path, nodes, nfe_info)
    ELSE AfterStrip(file_path, StripNamespaces(nodes))

\* nfe_info = root.find('.//nfe:infNFe', self.NAMESPACES)
Parsed(file_path, tree) ==
    IF tree.raised THEN tree
    ELSE Located(file_path, tree.value,
                 find(tree.value, 1, DescendantOf(<<Name(NAMESPACES.nfe, "infNFe")>>)).value)

\* The body of the try block: the value returned, or the exception raised.
TryBody(fsys, file_path) == Parsed(file_path, etree_parse(fsys, file_path))

\* (variant) except (OSError, etree.XMLSyntaxError): only what etree.parse raises
ExceptParseErrors(exc) == exc \in {"OSError", "XMLSyntaxError"}

\* except Exception as e: every exception the body raises is one
ExceptException(exc) == TRUE

\* return {'arquivo': os.path.basename(file_path), 'erro': str(e)}
ErrorRecord(file_path, msg) ==
    [key \in {"arquivo", "erro"} |->
        IF key = "arquivo" THEN Str(basename(file_path)) ELSE [message |-> msg]]

\* try: ... except Exception as e: return the error record
Handled(file_path, body) ==
    IF body.raised /\ ExceptException(body.exc)
    THEN Return(ErrorRecord(file_path, body.msg.text))
    ELSE body

\* The value parse_xml_file returns, or the exception it lets through.
parse_xml_file(fsys, file_path) == Handled(file_path, TryBody(fsys, file_path))

(***************************************************************************)
(* The documents the extractor is run on.                                  *)
(***************************************************************************)
\* values of the Id attribute of infNFe
IdTexts == { <<"N", "F", "e", "4", "2">>, <<"4", "2">>, <<"4", "N", "F", "e", "2">>,
             <<"N", "F", "e", "N", "F", "e", "7">> }

\* texts of ide/tpNF
TpTexts == { <<"0">>, <<"1">>, <<" ", "0", "\n">>, <<"0", "0">>, <<"2">> }

\* texts of total/ICMSTot/vNF
ValueTexts == { <<"1", "5", "0", ".", "5", "0">>, <<"0">>, <<"a", "b", "c">>, <<" ">> }

Absent == [present |-> FALSE, text |-> <<>>]
Present(S) == {[present |-> TRUE, text |-> t] : t \in S}

\* What distinguishes one document from another.
DocParams ==
    [ form    : {"plain", "ns"},        \* no namespace anywhere / all in the NF-e one
      inf     : BOOLEAN,                \* has an infNFe node
      comment : BOOLEAN,                \* holds a comment below the root
      id      : {Absent} \cup Present(IdTexts),
      tpNF    : {Absent} \cup Present(TpTexts),
      vNF     : {Absent} \cup Present(ValueTexts),   \* Absent: no total block
      date    : {"dhEmi", "dEmi"},
      dest    : {"CNPJ", "CPF"},
      dets    : 0..MaxDet ]

Optional(ns, tag, parent, field) ==
    IF field.present THEN <<Elem(ns, tag, parent, field.text)>> ELSE <<>>

\* <NFe> [comment] <infNFe Id=..> <ide/> <emit/> <dest/> <det/>* <total/>
\* </infNFe> </NFe>, or <NFe> [comment] <retorno/> </NFe>
Document(p) ==
    LET ns == IF p.form = "ns" THEN NfeNs ELSE ""
        head == <<Elem(ns, "NFe", 0, <<>>)>> \o (IF p.comment THEN <<Comment(1)>> ELSE <<>>)
        inf == Len(head) + 1
        ide == inf + 1
        ideBlock ==
            << Elem(ns, "ide", inf, <<>>),
               Elem(ns, "nNF", ide, <<"1", "0", "0">>),
               Elem(ns, "serie", ide, <<"1">>),
               Elem(ns, p.date, ide, <<"2", "0", "2", "4", "-", "0", "1", "-", "0", "5">>),
               Elem(ns, "natOp", ide, <<"V", "E", "N", "D", "A">>) >>
            \o Optional(ns, "tpNF", ide, p.tpNF)
        emit == ide + Len(ideBlock)
        emitBlock ==
            << Elem(ns, "emit", inf, <<>>),
               Elem(ns, "CNPJ", emit, <<"1", "1">>),
               Elem(ns, "xNome", emit, <<"A", "C", "M", "E">>) >>
        dest == emit + Len(emitBlock)
        destBlock ==
            << Elem(ns, "dest", inf, <<>>),
               Elem(ns, p.dest, dest, <<"2", "2">>),
               Elem(ns, "xNome", dest, <<" ", "B", "O", "B", " ">>) >>
        det == dest + Len(destBlock)
        detBlock == [k \in 1..p.dets |-> Elem(ns, "det", inf, <<>>)]
        total == det + Len(detBlock)
        totalBlock ==
            IF p.vNF.present
            THEN << Elem(ns, "total", inf, <<>>),
                    Elem(ns, "ICMSTot", total, <<>>),
                    Elem(ns, "vNF", total + 1, p.vNF.text) >>
            ELSE <<>>
        infNode == IF p.id.present THEN ElemId(ns, "infNFe", 1, p.id.text)
                   ELSE Elem(ns, "infNFe", 1, <<>>)
    IN IF p.inf
       THEN head \o <<infNode>> \o ideBlock \o emitBlock \o destBlock \o detBlock \o totalBlock
       ELSE head \o <<Elem(ns, "retorno", 1, <<>>)>>

Xml(nodes) == [kind |-> "xml", nodes |-> nodes]
Unreadable == [kind |-> "unreadable"]
Malformed == [kind |-> "malformed"]

\* the same elements and text, every element in the NF-e namespace
Namespaced(content) ==
    IF content.kind # "xml" THEN content
    ELSE Xml([i \in 1..Len(content.nodes) |->
                 IF content.nodes[i].kind = "element"
                 THEN [content.nodes[i] EXCEPT !.ns = NfeNs] ELSE content.nodes[i]])

ExtractContents == {Unreadable, Malformed} \cup {Xml(Document(p)) : p \in DocParams}

ExtractPath == <<"i", "n", "/", "n", "f", ".", "x", "m", "l">>

\* a file system holding one file
OneFile(path, content) == [dirs |-> [d \in {} |-> <<>>], files |-> [q \in {path} |-> content]]

(***************************************************************************)
(* Extractor runs: one file, parse_xml_file applied to it.                 *)
(***************************************************************************)
InitExtract ==
    /\ fs \in {OneFile(ExtractPath, c) : c \in ExtractContents}
    /\ file = ExtractPath
    /\ rec = Pending
    /\ data = <<>> /\ arg = NoPath /\ result = Pending /\ handed = <<>>
    /\ prevArg = NoPath /\ prevResult = Pending
    /\ ui = Pending /\ df_nfe = None

Extract ==
    /\ rec = Pending
    /\ rec' = parse_xml_file(fs, file)
    /\ UNCHANGED <<fs, data, arg, result, handed, prevArg, prevResult, ui, df_nfe, file>>

NextExtract == Extract

SpecExtract == InitExtract /\ [][NextExtract]_vars

(***************************************************************************)
(* pandas: DataFrame(list of dicts), to_numeric and to_datetime with       *)
(* errors='coerce'.                                                        *)
(***************************************************************************)
\* bool(nfe_data): None and the empty dict are falsy
Truthy(v) == v # None /\ DOMAIN v # {}

\* pd.DataFrame(records): the columns are the union of the keys; a key a
\* record lacks is NaN in its row
DataFrame(records) ==
    LET cols == UNION {DOMAIN records[i] : i \in 1..Len(records)}
    IN [columns |-> cols,
        rows |-> [i \in 1..Len(records) |->
                     [c \in cols |-> IF c \in DOMAIN records[i] THEN records[i][c] ELSE NaN]]]

DigitValue ==
    [c \in {"0", "1", "2", "3", "4", "5", "6", "7", "8", "9"} |->
        CASE c = "0" -> 0 [] c = "1" -> 1 [] c = "2" -> 2 [] c = "3" -> 3 [] c = "4" -> 4
          [] c = "5" -> 5 [] c = "6" -> 6 [] c = "7" -> 7 [] c = "8" -> 8 [] c = "9" -> 9]

AllDigits(s) == \A i \in 1..Len(s) : s[i] \in DOMAIN DigitValue

RECURSIVE DigitsValue(_)
DigitsValue(s) == IF s = <<>> THEN 0 ELSE 10 * DigitsValue(SubSeq(s, 1, Len(s) - 1)) + DigitValue[s[Len(s)]]

RECURSIVE DropTrailingZeros(_)
DropTrailingZeros(s) ==
    IF s # <<>> /\ s[Len(s)] = "0" THEN DropTrailingZeros(SubSeq(s, 1, Len(s) - 1)) ELSE s

\* The float a decimal numeral denotes ("150.50", "0", "7.", ".5"), NaN for
\* any other text.  Signs, exponents and the words inf/nan, which pandas
\* also reads, are outside the alphabet of the documents modelled.
ParseFloat(s) ==
    LET dots == {i \in 1..Len(s) : s[i] = "."}
        dot == IF dots = {} THEN Len(s) + 1 ELSE CHOOSE i \in dots : TRUE
        whole == SubSeq(s, 1, dot - 1)
        frac == DropTrailingZeros(SubSeq(s, dot + 1, Len(s)))
    IN IF /\ Cardinality(dots) <= 1
          /\ AllDigits(whole) /\ AllDigits(SubSeq(s, dot + 1, Len(s)))
          /\ Len(s) - Cardinality(dots) >= 1
       THEN Num(DigitsValue(whole \o frac), Len(frac))
       ELSE NaN

\* pd.to_numeric(cell, errors='coerce')
to_numeric(cell) == IF "str" \in DOMAIN cell THEN ParseFloat(cell.str) ELSE cell

DaysInMonth(y, m) ==
    IF m = 2 THEN (IF (y % 4 = 0 /\ y % 100 # 0) \/ y % 400 = 0 THEN 29 ELSE 28)
    ELSE IF m \in {4, 6, 9, 11} THEN 30 ELSE 31

\* pd.to_datetime(cell, errors='coerce'): a calendar date YYYY-MM-DD, NaT
\* for any other text (the documents modelled carry no other date form)
to_datetime(cell) ==
    IF "str" \notin DOMAIN cell THEN cell
    ELSE LET s == cell.str IN
         IF /\ Len(s) = 10 /\ s[5] = "-" /\ s[8] = "-"
            /\ AllDigits(SubSeq(s, 1, 4)) /\ AllDigits(SubSeq(s, 6, 7)) /\ AllDigits(SubSeq(s, 9, 10))
            /\ DigitsValue(SubSeq(s, 6, 7)) \in 1..12
            /\ DigitsValue(SubSeq(s, 9, 10)) \in
                   1..DaysInMonth(DigitsValue(SubSeq(s, 1, 4)), DigitsValue(SubSeq(s, 6, 7)))
         THEN Timestamp(DigitsValue(SubSeq(s, 1, 4)), DigitsValue(SubSeq(s, 6, 7)),
                        DigitsValue(SubSeq(s, 9, 10)))
         ELSE NaN

value_columns ==
    {"valor_produtos", "valor_desconto", "valor_frete", "valor_total", "valor_icms", "valor_ipi"}

\* (variant) the column is coerced without asking whether the frame has it
HasColumnUnchecked(df, col) == TRUE

\* if col in df.columns
HasColumn(df, col) == col \in df.columns

\* pd.to_numeric / pd.to_datetime, as `how` names it
Coerce(how, cell) == IF how = "to_numeric" THEN to_numeric(cell) ELSE to_datetime(cell)

\* df[col] = how(df[col]) for every column of `cols` the guard lets through;
\* reading a column the frame lacks is KeyError
CoerceColumns(df, cols, how) ==
    IF \E c \in cols : HasColumn(df, c) /\ c \notin df.columns
    THEN Raise("KeyError", "column")
    ELSE Return([df EXCEPT !.rows =
                    [i \in 1..Len(df.rows) |->
                        [c \in df.columns |->
                            IF c \in cols /\ HasColumn(df, c) THEN Coerce(how, df.rows[i][c])
                            ELSE df.rows[i][c]]]])

(***************************************************************************)
(* The file system, as os.path and os.listdir see it.                      *)
(***************************************************************************)
exists(fsys, path) == path \in DOMAIN fsys.dirs \/ path \in DOMAIN fsys.files
\* (variant) os.path.exists asked where os.path.isdir was meant
IsDirAsExists(fsys, path) == path \in DOMAIN fsys.dirs \/ path \in DOMAIN fsys.files

isdir(fsys, path) == path \in DOMAIN fsys.dirs

listdir(fsys, path) ==
    IF path \in DOMAIN fsys.dirs THEN Return(fsys.dirs[path])
    ELSE IF path \in DOMAIN fsys.files THEN RaiseAt("NotADirectoryError", "Not a directory", path)
    ELSE RaiseAt("FileNotFoundError", "No such file or directory", path)

(***************************************************************************)
(* NFEParser.process_folder.                                               *)
(***************************************************************************)
\* (variant) self.data is left as the call before filled it
KeepData(self_data) == self_data

\* self.data = []
ResetData(self_data) == <<>>

\* (variant) f.endswith('.xml'), without lower()
XmlFilesCaseSensitive(folder_path, listing) ==
    LET kept == SelectSeq(listing, LAMBDA f : endswith(f, <<".", "x", "m", "l">>))
    IN [i \in 1..Len(kept) |-> join(folder_path, kept[i])]

\* [os.path.join(folder_path, f) for f in listing if f.lower().endswith('.xml')]
XmlFiles(folder_path, listing) ==
    LET kept == SelectSeq(listing, LAMBDA f : endswith(lower(f), <<".", "x", "m", "l">>))
    IN [i \in 1..Len(kept) |-> join(folder_path, kept[i])]

\* for xml_file in xml_files: nfe_data = self.parse_xml_file(xml_file);
\* if nfe_data: self.data.append(nfe_data).  An exception parse_xml_file
\* lets through ends the loop with what was appended so far.  `calls` are
\* the files handed to parse_xml_file.
RECURSIVE ProcessEach(_, _, _, _)
Collect(fsys, rest, acc, calls, nfe_data) ==
    IF nfe_data.raised THEN [data |-> acc, out |-> nfe_data, calls |-> calls]
    ELSE ProcessEach(fsys, rest,
                     IF Truthy(nfe_data.value) THEN Append(acc, nfe_data.value) ELSE acc, calls)

ProcessEach(fsys, xml_files, acc, calls) ==
    IF xml_files = <<>> THEN [data |-> acc, out |-> Return(None), calls |-> calls]
    ELSE Collect(fsys, Tail(xml_files), acc, Append(calls, Head(xml_files)),
                 parse_xml_file(fsys, Head(xml_files)))

\* if 'data_emissao' in df.columns: df['data_emissao'] = pd.to_datetime(...); return df
FormatDate(loop, numeric) ==
    IF numeric.raised THEN [loop EXCEPT !.out = numeric]
    ELSE [loop EXCEPT !.out = CoerceColumns(numeric.value, {"data_emissao"}, "to_datetime")]

\* df = pd.DataFrame(self.data), then the value columns through pd.to_numeric
FormatValues(loop) ==
    IF loop.out.raised THEN loop
    ELSE FormatDate(loop, CoerceColumns(DataFrame(loop.data), value_columns, "to_numeric"))

\* if not xml_files: raise ValueError, else the loop over them
Discovered(fsys, self_data, folder_path, xml_files) ==
    IF xml_files = <<>>
    THEN [data |-> self_data,
          out |-> RaiseAt("ValueError", "Nenhum arquivo XML encontrado em: ", folder_path),
          calls |-> <<>>]
    ELSE FormatValues(ProcessEach(fsys, xml_files, self_data, <<>>))

\* what os.listdir gave: its exception leaves process_folder as it is
Listed(fsys, self_data, folder_path, listing) ==
    IF listing.raised THEN [data |-> self_data, out |-> listing, calls |-> <<>>]
    ELSE Discovered(fsys, self_data, folder_path, XmlFiles(folder_path, listing.value))

\* The outcome of process_folder, self.data as it leaves it and the files
\* it handed to parse_xml_file.
process_folder(fsys, self_data, folder_path) ==
    IF ~exists(fsys, folder_path)
    THEN [data |-> ResetData(self_data),
          out |-> RaiseAt("ValueError", "Pasta nao encontrada: ", folder_path),
          calls |-> <<>>]
    ELSE Listed(fsys, ResetData(self_data), folder_path, listdir(fsys, folder_path))

(***************************************************************************)
(* The "Processar XMLs" button handler of app.py.                          *)
(***************************************************************************)
\* except ValueError as e
ExceptValueError(exc) == exc = "ValueError"

\* df.empty
empty(df) == Len(df.rows) = 0 \/ df.columns = {}

Message(level, text, input) == [level |-> level, text |-> text, input |-> input]

\* try: df = parser.process_folder(folder_path) ... except ValueError ...
\* except Exception: what is rendered and what st.session_state.df_nfe holds
Rendered(session_df, folder_path, out) ==
    IF out.raised
    THEN IF ExceptValueError(out.exc)
         THEN [ui |-> Message("error", "Erro: ", folder_path), df_nfe |-> session_df]
         ELSE [ui |-> Message("error", "Erro ao processar arquivos: ", folder_path),
               df_nfe |-> session_df]
    ELSE IF empty(out.value)
    THEN [ui |-> Message("warning", "Nenhum dado foi extraido dos arquivos XML.", folder_path),
          df_nfe |-> session_df]
    ELSE [ui |-> Message("success", "nota(s) fiscal(is) processada(s) com sucesso!", folder_path),
          df_nfe |-> out.value]

\* What the handler renders for folder_path and what it leaves in
\* st.session_state.df_nfe.  The parser is a new one on every click.
process_button(fsys, session_df, folder_path) ==
    IF folder_path = <<>>
    THEN [ui |-> Message("error", "Por favor, insira o caminho da pasta!", folder_path),
          df_nfe |-> session_df]
    ELSE IF ~exists(fsys, folder_path)
    THEN [ui |-> Message("error", "Pasta nao encontrada", folder_path), df_nfe |-> session_df]
    ELSE IF ~isdir(fsys, folder_path)
    THEN [ui |-> Message("error", "O caminho informado nao e uma pasta", folder_path),
          df_nfe |-> session_df]
    ELSE Rendered(session_df, folder_path, process_folder(fsys, <<>>, folder_path).out)

(***************************************************************************)
(* The folders the batch is run on.                                        *)
(***************************************************************************)
Folder == <<"i", "n">>
\* a path that exists and is a regular file
NotADirectory == <<"l", "o", "g">>
\* a path that does not exist
Missing == <<"n", "o">>

Invoice(form, comment, vNF) ==
    Xml(Document([form |-> form, inf |-> TRUE, comment |-> comment,
                  id |-> [present |-> TRUE, text |-> <<"N", "F", "e", "4", "2">>],
                  tpNF |-> [present |-> TRUE, text |-> <<"0">>],
                  vNF |-> vNF, date |-> "dhEmi", dest |-> "CNPJ", dets |-> 1]))

NotAnInvoice(comment) ==
    Xml(Document([form |-> "plain", inf |-> FALSE, comment |-> comment,
                  id |-> Absent, tpNF |-> Absent, vNF |-> Absent,
                  date |-> "dhEmi", dest |-> "CNPJ", dets |-> 0]))

\* The entries a folder may hold, by name.
Entries ==
    << [name |-> <<"a", ".", "x", "m", "l">>, content |-> Invoice("plain", FALSE, Absent)],
       [name |-> <<"b", ".", "X", "M", "L">>, content |-> Malformed],
       [name |-> <<"c", ".", "x", "m", "l">>, content |-> NotAnInvoice(FALSE)],
       [name |-> <<"d", ".", "t", "x", "t">>, content |-> Malformed],
       [name |-> <<"e", ".", "x", "m", "l">>,
        content |-> Invoice("plain", FALSE,
                            [present |-> TRUE, text |-> <<"1", "5", "0", ".", "5", "0">>])],
       [name |-> <<"f", ".", "x", "m", "l">>, content |-> NotAnInvoice(TRUE)],
       [name |-> <<"g", ".", "X", "m", "l">>, content |-> Unreadable],
       [name |-> <<"h", ".", "x", "m", "l">>,
        content |-> Invoice("ns", TRUE, [present |-> TRUE, text |-> <<"7", "5">>])] >>

\* the orders in which at most MaxFiles of the first n entries are listed
Listings(n) ==
    {l \in UNION {[1..k -> 1..n] : k \in 0..MaxFiles} :
        \A i, j \in DOMAIN l : i # j => l[i] # l[j]}

\* the file system in which Folder lists the entries l
FileSystem(l) ==
    [dirs |-> [d \in {Folder} |-> [i \in DOMAIN l |-> Entries[l[i]].name]],
     files |-> [q \in {join(Folder, Entries[l[i]].name) : i \in DOMAIN l} \cup {NotADirectory} |->
                  IF q = NotADirectory THEN Malformed
                  ELSE Entries[CHOOSE k \in 1..Len(Entries) : join(Folder, Entries[k].name) = q].content]]

Paths == {Folder, NotADirectory, Missing}

\* the entries the button handler is exercised with: a.xml .. d.txt
AppEntries == 4

(***************************************************************************)
(* Batch runs: one parser instance, process_folder called again and again. *)
(***************************************************************************)
Init ==
    /\ fs \in {FileSystem(l) : l \in Listings(Len(Entries))}
    /\ data = <<>>
    /\ arg = NoPath /\ result = Pending /\ handed = <<>>
    /\ prevArg = NoPath /\ prevResult = Pending
    /\ ui = Pending /\ df_nfe = None
    /\ file = NoPath /\ rec = Pending

\* the call has left `done` behind: self.data and what it returned or raised
Completed(folder_path, done) ==
    /\ data' = done.data
    /\ arg' = folder_path
    /\ result' = done.out
    /\ handed' = done.calls

CallProcessFolder(folder_path) ==
    /\ Completed(folder_path, process_folder(fs, data, folder_path))
    /\ prevArg' = arg
    /\ prevResult' = result
    /\ UNCHANGED <<fs, ui, df_nfe, file, rec>>

Next == \E folder_path \in Paths : CallProcessFolder(folder_path)

Spec == Init /\ [][Next]_vars

(***************************************************************************)
(* The application: the button pressed with a path typed in, beside a      *)
(* caller that hands the path to process_folder unchecked.                 *)
(***************************************************************************)
InitApp ==
    /\ fs \in {FileSystem(l) : l \in Listings(AppEntries)}
    /\ data = <<>>
    /\ arg = NoPath /\ result = Pending /\ handed = <<>>
    /\ prevArg = NoPath /\ prevResult = Pending
    /\ ui = Pending /\ df_nfe = None
    /\ file = NoPath /\ rec = Pending

DirectCall(folder_path) ==
    /\ Completed(folder_path, process_folder(fs, data, folder_path))
    /\ UNCHANGED <<fs, prevArg, prevResult, ui, df_nfe, file, rec>>

\* the handler has run: the message on screen and the session's table
Shown(shown) ==
    /\ ui' = shown.ui
    /\ df_nfe' = shown.df_nfe

PressButton(folder_path) ==
    /\ Shown(process_button(fs, df_nfe, folder_path))
    /\ UNCHANGED <<fs, data, arg, result, handed, prevArg, prevResult, file, rec>>

NextApp ==
    \/ \E folder_path \in Paths : DirectCall(folder_path)
    \/ \E folder_path \in Paths \cup {<<>>} : PressButton(folder_path)

SpecApp == InitApp /\ [][NextApp]_vars

(***************************************************************************)
(* What the claims say about a document, read off the tree itself.         *)
(***************************************************************************)
IsElement(nodes, i, tag) == nodes[i].kind = "element" /\ nodes[i].tag = tag

\* the infNFe nodes below the root
InvoiceNodes(nodes) == {i \in 2..Len(nodes) : IsElement(nodes, i, "infNFe")}

\* every element is in the NF-e namespace / no element is in any namespace
AllNamespaced(nodes) == \A i \in 1..Len(nodes) : nodes[i].kind = "element" => nodes[i].ns = NfeNs
NoNamespace(nodes) == \A i \in 1..Len(nodes) : nodes[i].kind = "element" => nodes[i].ns = ""

\* the text of <block><tag> of the invoice, <<>> when there is no such element
FieldText(nodes, block, tag) ==
    LET hits == {i \in 1..Len(nodes) :
                    /\ IsElement(nodes, i, tag)
                    /\ nodes[i].parent # 0
                    /\ IsElement(nodes, nodes[i].parent, block)}
    IN IF hits = {} THEN <<>> ELSE nodes[CHOOSE i \in hits : \A j \in hits : i <= j].text

Extracted == rec # Pending
FileContent == fs.files[file]
IsInvoice == FileContent.kind = "xml" /\ InvoiceNodes(FileContent.nodes) # {}
IsSuccessRecord(r) == ~r.raised /\ r.value # None /\ "chave_acesso" \in DOMAIN r.value
IsErrorRecord(r) == ~r.raised /\ r.value # None /\ DOMAIN r.value = {"arquivo", "erro"}

C3_NamespaceEquivalence ==
    (Extracted /\ IsInvoice /\ NoNamespace(FileContent.nodes)) =>
        rec = parse_xml_file(OneFile(file, Namespaced(FileContent)), file)

(***************************************************************************)
(* C4 (as claimed): for a namespaced invoice, tipo_operacao is 'Entrada'   *)
(* when the text of ide/tpNF is exactly "0" and 'Saída' otherwise.         *)
(***************************************************************************)
C4_OperationType ==
    (Extracted /\ IsInvoice /\ AllNamespaced(FileContent.nodes)) =>
        /\ IsSuccessRecord(rec)
        /\ rec.value["tipo_operacao"] =
              [label |-> IF FieldText(FileContent.nodes, "ide", "tpNF") = <<"0">>
                         THEN "Entrada" ELSE "Saida"]

(***************************************************************************)
(* C9 (as claimed): chave_acesso is the Id attribute of infNFe without its *)
(* leading 'NFe' when it starts with it, the attribute unchanged when it   *)
(* does not, and '' when there is no Id.                                   *)
(***************************************************************************)
C9_AccessKeyPrefix ==
    (Extracted /\ IsSuccessRecord(rec)) =>
        LET inf == CHOOSE i \in InvoiceNodes(FileContent.nodes) :
                       \A j \in InvoiceNodes(FileContent.nodes) : i <= j
            id == IF FileContent.nodes[inf].attrib.hasId
                  THEN FileContent.nodes[inf].attrib.Id ELSE <<>>
        IN rec.value["chave_acesso"] =
              Str(IF startswith(id, <<"N", "F", "e">>) THEN SubSeq(id, 4, Len(id)) ELSE id)

(***************************************************************************)
(* What the claims say about a folder, read off the file system itself.    *)
(***************************************************************************)
Called == result # Pending
Returned == Called /\ ~result.raised

PathIsFolder(path) == path \in DOMAIN fs.dirs
PathIsFile(path) == path \in DOMAIN fs.files
PathIsMissing(path) == ~PathIsFolder(path) /\ ~PathIsFile(path)

\* the name ends in .xml, in whatever case
XmlNamed(name) ==
    /\ Len(name) >= 4
    /\ name[Len(name) - 3] = "."
    /\ name[Len(name) - 2] \in {"x", "X"}
    /\ name[Len(name) - 1] \in {"m", "M"}
    /\ name[Len(name)] \in {"l", "L"}

\* the .xml entries of the folder, in the order it lists them
XmlEntries(path) == SelectSeq(fs.dirs[path], XmlNamed)

ContentOf(path, name) == fs.files[path \o <<"/">> \o name]

FailsToParse(path, name) == ContentOf(path, name).kind \in {"unreadable", "malformed"}

\* parses as XML and has no infNFe node
SilentlySkipped(path, name) ==
    /\ ContentOf(path, name).kind = "xml"
    /\ InvoiceNodes(ContentOf(path, name).nodes) = {}

Rows == result.value.rows

(***************************************************************************)
(* C2 (as claimed): the table has one row per discovered .xml file, in     *)
(* listing order, except that a file that parses as XML and has no infNFe  *)
(* node has no row.                                                        *)
(***************************************************************************)
C2_OneRowPerRecord ==
    Returned =>
        LET expected == SelectSeq(XmlEntries(arg), LAMBDA n : ~SilentlySkipped(arg, n))
        IN /\ Len(Rows) = Len(expected)
           /\ \A i \in 1..Len(expected) : Rows[i]["arquivo"] = Str(expected[i])

(***************************************************************************)
(* C5: process_folder raises the "folder not found" ValueError for a path  *)
(* that does not exist and the "no XML file found" ValueError for a folder *)
(* none of whose entries ends in .xml in whatever case (and for no folder  *)
(* that has such an entry); the two differ in their message, and in both   *)
(* cases no file reaches parse_xml_file and nothing is returned.           *)
(***************************************************************************)
C5_BatchLevelErrors ==
    Called =>
        /\ PathIsMissing(arg) =>
              /\ result.raised /\ result.exc = "ValueError"
              /\ result.msg.text = "Pasta nao encontrada: "
              /\ handed = <<>> /\ data = <<>>
        /\ PathIsFolder(arg) =>
              (XmlEntries(arg) = <<>>) <=>
                  /\ result.raised /\ result.exc = "ValueError"
                  /\ result.msg.text = "Nenhum arquivo XML encontrado em: "
                  /\ handed = <<>> /\ data = <<>>

\* a folder holding only non-XML entries fails one way, right after a
\* missing path has failed the other way
C5_Witness ==
    /\ Called /\ PathIsFolder(arg) /\ fs.dirs[arg] # <<>> /\ XmlEntries(arg) = <<>>
    /\ result.raised /\ result.msg.text = "Nenhum arquivo XML encontrado em: "
    /\ prevResult # Pending /\ PathIsMissing(prevArg)
    /\ prevResult.raised /\ prevResult.msg.text = "Pasta nao encontrada: "

(***************************************************************************)
(* C7: when every .xml file of the folder fails to parse, process_folder   *)
(* raises nothing and returns a table of one error row per file (columns   *)
(* 'arquivo' and 'erro' only), the value and date coercions having nothing *)
(* to work on.                                                             *)
(***************************************************************************)
C7_AllFilesFail ==
    (Called /\ PathIsFolder(arg) /\ XmlEntries(arg) # <<>>
        /\ \A k \in 1..Len(XmlEntries(arg)) : FailsToParse(arg, XmlEntries(arg)[k])) =>
        /\ ~result.raised
        /\ result.value.columns = {"arquivo", "erro"}
        /\ Len(Rows) = Len(XmlEntries(arg))
        /\ \A i \in 1..Len(Rows) :
              /\ Rows[i]["arquivo"] = Str(XmlEntries(arg)[i])
              /\ Rows[i]["erro"] # NaN

\* two files, both failing
C7_Witness ==
    /\ Returned /\ PathIsFolder(arg) /\ Len(XmlEntries(arg)) >= 2
    /\ \A k \in 1..Len(XmlEntries(arg)) : FailsToParse(arg, XmlEntries(arg)[k])
    /\ Len(Rows) = Len(XmlEntries(arg))

(***************************************************************************)
(* C8 (as claimed): after the coercion every row of an invoice whose vNF   *)
(* text is a number holds that number in valor_total, and every row whose  *)
(* vNF text is empty or no number holds a null there, never zero.          *)
(***************************************************************************)
C8_MonetaryCoercion ==
    Returned =>
        \A k \in 1..Len(XmlEntries(arg)) :
            LET name == XmlEntries(arg)[k]
                c == ContentOf(arg, name)
            IN (c.kind = "xml" /\ InvoiceNodes(c.nodes) # {}) =>
                  \E i \in 1..Len(Rows) :
                      /\ Rows[i]["arquivo"] = Str(name)
                      /\ "valor_total" \in result.value.columns
                      /\ Rows[i]["valor_total"] = ParseFloat(strip(FieldText(c.nodes, "ICMSTot", "vNF")))

(***************************************************************************)
(* C10: whatever calls came before on the same parser, failed ones         *)
(* included, the table a call returns holds rows of files of the folder it *)
(* was given only, at most one per file, self.data holds the same records  *)
(* and no more, and a second call on the unchanged folder returns the same *)
(* table as the first.                                                     *)
(***************************************************************************)
C10_NoCarryOver ==
    Returned =>
        /\ Len(Rows) <= Len(XmlEntries(arg))
        /\ Len(data) = Len(Rows)
        /\ \A i \in 1..Len(Rows) :
              /\ \E k \in 1..Len(XmlEntries(arg)) : Rows[i]["arquivo"] = Str(XmlEntries(arg)[k])
              /\ \A j \in 1..Len(Rows) : i # j => Rows[i]["arquivo"] # Rows[j]["arquivo"]
        /\ (prevResult # Pending /\ prevArg = arg) => result = prevResult

\* the same folder processed twice in a row, with rows to carry over
C10_Witness ==
    /\ Returned /\ Len(Rows) >= 1
    /\ prevResult # Pending /\ prevArg = arg /\ ~prevResult.raised

(***************************************************************************)
(* C6 (as claimed): for a path that exists and is not a directory,         *)
(* process_folder fails with the ValueError it raises for a missing folder *)
(* or a folder without XML files.                                          *)
(***************************************************************************)
C6_NotADirectoryIsValueError ==
    (Called /\ PathIsFile(arg)) => (result.raised /\ ExceptValueError(result.exc))

(***************************************************************************)
(* C6 (amended): for a path that exists and is not a directory,            *)
(* process_folder fails with the NotADirectoryError of os.listdir, which   *)
(* is no ValueError, and hands no file to parse_xml_file; the button       *)
(* handler turns such a path down itself, with its own message, and leaves *)
(* the session's table alone.                                              *)
(***************************************************************************)
C6_NotADirectoryFails ==
    /\ (Called /\ PathIsFile(arg)) =>
          /\ result.raised
          /\ result.exc = "NotADirectoryError"
          /\ ~ExceptValueError(result.exc)
          /\ handed = <<>> /\ data = <<>>
    /\ (ui # Pending /\ ui.input # <<>> /\ PathIsFile(ui.input)) =>
          /\ ui.level = "error"
          /\ ui.text = "O caminho informado nao e uma pasta"

C6_Witness ==
    /\ Called /\ PathIsFile(arg) /\ result.raised /\ result.exc = "NotADirectoryError"
    /\ ui # Pending /\ PathIsFile(ui.input) /\ ui.level = "error"

=============================================================================
